---- MODULE Spec2Model ----
(***************************************************************************)
(* Model of search.py: the adaptive-threshold similarity search            *)
(* (get_similarity), the worker task (calc_sim_for_smiles) and the         *)
(* dispatcher (main: chunking, ProcessPoolExecutor.map, aggregation,       *)
(* output).                                                                *)
(*                                                                         *)
(* Python floats are IEEE-754 doubles.  Every double the program handles   *)
(* lies in [-0.25, 1] and is an integer number of units of 2^-55; a double *)
(* is modelled as the pair <<hi, lo>> standing for hi * 2^28 + lo units,   *)
(* 0 <= lo < 2^28, so that all arithmetic stays inside 32-bit integers.    *)
(***************************************************************************)
EXTENDS Integers, Sequences, FiniteSets, TLC

\* ------------------------------------------------------------- bounds
\* Longest query file (number of query molecules) of a run.
MaxQueries == 3
\* Largest worker count (cpu_count() of the machine).
MaxCpu == 2
\* Largest reference table (number of rows).
MaxRefs == 2
\* Largest cpu_count() of a machine on which the options are parsed.
MaxUnits == 8
\* How far below 1 and above cpu_count() the value given to --ncpu ranges.
ArgSlack == 2

\* ------------------------------------------------------------- doubles
B == 2^28

\* The double literals of the program and the similarity values the engine
\* reports (units of 2^-55, exact values of the nearest doubles).
D_0_7 == <<93952409, 161061272>>    \* 0.7   line 23
D_0_1 == <<13421772, 214748365>>    \* 0.1   line 41
D_0   == <<0, 0>>                   \* 0     line 24
D_1   == <<134217728, 0>>           \* 1.0   = 1/1
D_0_55 == <<73819750, 107374184>>   \* 0.55  = 11/20
D_0_3 == <<40265318, 107374182>>    \* 0.3   = 3/10

\* a >= b on doubles
FGe(a, b) == a[1] > b[1] \/ (a[1] = b[1] /\ a[2] >= b[2])

FGt(a, b) == FGe(a, b) /\ a # b

\* Spacing of the doubles around a value with high limb hi, in units of 2^-55:
\* 2^-53 in [0.5, 1), 2^-54 in [0.25, 0.5), at most 2^-55 in (-0.25, 0.25).
Ulp(hi) == IF hi >= 2^26 THEN 4 ELSE IF hi >= 2^25 THEN 2 ELSE 1

\* Round an exact value to the nearest double, ties to the even mantissa.
FRound(x) ==
    LET m == Ulp(x[1])
        r == x[2] % m
        q == x[2] \div m
        down == x[2] - r
        up == down + m
        v == IF 2 * r < m THEN down
             ELSE IF 2 * r > m THEN up
             ELSE IF q % 2 = 0 THEN down ELSE up
    IN  IF v >= B THEN <<x[1] + 1, v - B>> ELSE <<x[1], v>>

\* The double a - b (IEEE-754 subtraction: exact difference, then rounded).
FSub(a, b) ==
    LET lo == a[2] - b[2]
        hi == a[1] - b[1]
    IN  FRound(IF lo < 0 THEN <<hi - 1, lo + B>> ELSE <<hi, lo>>)

\* ------------------------------------------------------------- engine
\* limit=None: no LIMIT clause
NoLimit == 0 - 1

\* What get_similarity hands back: a non-empty list of rows, or None when the
\* loop runs out (the function falls off its end).
Rows(rows) == [is_none |-> FALSE, rows |-> rows]

None == [is_none |-> TRUE, rows |-> << >>]

\* Reference molecules (rows of the table: smi, id) and query smiles.
RefMols == { [smi |-> "CCO", id |-> "ref1"],
             [smi |-> "CCCO", id |-> "ref2"] }

QuerySmiles == {"CCO", "CCN", "C"}

\* bfp_tanimoto of the fingerprints of a reference molecule and of the query:
\* the similarity column t the engine computes (a double).
bfp_tanimoto(main_smi, query) ==
    CASE query = "CCO" /\ main_smi = "CCO" -> D_1
      [] query = "CCO" /\ main_smi = "CCCO" -> D_0_55
      [] query = "CCN" /\ main_smi = "CCO" -> D_0_3
      [] query = "CCN" /\ main_smi = "CCCO" -> D_0
      [] OTHER -> D_0

\* The rows of the table joined with the index, with their similarity to the
\* query, in rowid order.
Joined(con, query) ==
    [i \in 1..Len(con) |->
        [smi |-> con[i].smi, id |-> con[i].id, t |-> bfp_tanimoto(con[i].smi, query)]]

\* WHERE ... MATCH rdtree_tanimoto(query fingerprint, ?2): rows with t >= ?2.
Matching(rows, threshold) ==
    SelectSeq(rows, LAMBDA r: FGe(r.t, threshold))

\* ORDER BY t DESC (rows of equal t stay in rowid order)
OrderByTDesc(rows) ==
    LET n == Len(rows)
        Before(i, j) ==
            FGt(rows[i].t, rows[j].t) \/ (rows[i].t = rows[j].t /\ i < j)
        rank(i) == Cardinality({ j \in 1..n : Before(j, i) }) + 1
    IN  [r \in 1..n |-> rows[CHOOSE i \in 1..n : rank(i) = r]]

\* LIMIT n, when limit is not None
Limit(rows, limit) ==
    IF limit = NoLimit THEN rows
    ELSE SubSeq(rows, 1, IF limit < Len(rows) THEN limit ELSE Len(rows))

\* con.execute(sql, (query, threshold)).fetchall()
Execute(con, query, threshold, limit) ==
    Limit(OrderByTDesc(Matching(Joined(con, query), threshold)), limit)

\* ------------------------------------------------------------- command line
VARIABLES
    args_output,     \* value given to --output, or OutputNone when omitted
    args_threshold,  \* value given to --threshold (default 0.7)
    args_ncpu,       \* integer given to --ncpu, before type=cpu_type
    cpu_count        \* cpu_count() of the machine

argVars == <<args_output, args_threshold, args_ncpu, cpu_count>>

\* args.output when -o is omitted: default=None
OutputNone == "None"

\* The name given to -o
OutputFile == "out.tsv"

\* Values given to --threshold: its default and another one
ThresholdOptions == {D_0_7, D_0_3}

\* ------------------------------------------------------------- get_similarity
\* threshold = args.threshold: the search starts at the value of --threshold
SearchStartAtOption ==
    [threshold |-> args_threshold, res |-> None, probed |-> << >>, pc |-> "loop"]

\* The loop of get_similarity as a state machine over
\* [threshold, res, probed, pc]: probed lists the thresholds bound to ?2 so
\* far, pc is "loop" at the loop head and "return" once the function returned.
SearchStart ==
    [threshold |-> D_0_7, res |-> None, probed |-> << >>, pc |-> "loop"]

\* threshold -= 0.2
NextThresholdTwoSteps(threshold) == FSub(FSub(threshold, D_0_1), D_0_1)

\* threshold -= 0.1
NextThreshold(threshold) == FSub(threshold, D_0_1)

\* while threshold >= 0
LoopGuard(threshold) == FGe(threshold, D_0)

\* The loop body keeps lowering the threshold until limit rows have come back
SearchStepFillLimit(con, query, limit, st) ==
    IF ~LoopGuard(st.threshold)
    THEN [st EXCEPT !.pc = "return"]
    ELSE LET rows == Execute(con, query, st.threshold, limit)
             log == Append(st.probed, st.threshold)
         IN  IF rows # << >> /\ (limit = NoLimit \/ Len(rows) >= limit)
             THEN [st EXCEPT !.probed = log, !.res = Rows(rows), !.pc = "return"]
             ELSE [st EXCEPT !.probed = log,
                             !.res = IF rows # << >> THEN Rows(rows) ELSE st.res,
                             !.threshold = NextThreshold(st.threshold)]

\* One evaluation of the loop head and, if the guard holds, of the loop body.
SearchStep(con, query, limit, st) ==
    IF ~LoopGuard(st.threshold)
    THEN [st EXCEPT !.pc = "return", !.res = None]
    ELSE LET rows == Execute(con, query, st.threshold, limit)
             log == Append(st.probed, st.threshold)
         IN  IF rows # << >>
             THEN [st EXCEPT !.probed = log, !.res = Rows(rows), !.pc = "return"]
             ELSE [st EXCEPT !.probed = log,
                             !.threshold = NextThreshold(st.threshold)]

\* The loop run to its end (each step is bound as a value before the next)
RECURSIVE SearchRun(_, _, _, _)
SearchRun(con, query, limit, st) ==
    IF st.pc = "return" THEN st
    ELSE CHOOSE end \in { SearchRun(con, query, limit, nxt) :
                             nxt \in {SearchStep(con, query, limit, st)} } : TRUE

\* get_similarity(con, fp, mol_field, table, query, limit)
get_similarity(con, query, limit) ==
    SearchRun(con, query, limit, SearchStart).res

\* ------------------------------------------------------------- state
VARIABLES
    input_db,      \* the persisted reference table: sequence of [smi, id] rows
    input_smiles,  \* the query file: sequence of [Name, smi] records
    ncpu,          \* args.ncpu
    pc,            \* where main is: "args", "start", "wait", "shutdown",
                   \* "done", "failed", or "crashed" (died before the pool)
    chunked,       \* the chunks handed to p.map, in submission order
    fut,           \* state of the future of each chunk
    dest,          \* the in-memory copy of the table each task works on
    pos,           \* per task: index in its chunk of the next (mol_id, smi)
    all_res,       \* per task: all_res
    probes,        \* per task: the (mol_id, threshold) of every query executed
    nextfut,       \* index of the future whose result main waits for next
    results,       \* the chunk results p.map has yielded so far, in yield order
    out,           \* lines written to args.output
    error,         \* the exception main dies with, or "none"
    completed,     \* chunk indices in the order their tasks ended
    query,         \* get_similarity on its own: the query smiles
    limit,         \* get_similarity on its own: limit
    search         \* get_similarity on its own: [threshold, res, probed, pc]

vars == <<args_output, args_threshold, args_ncpu, cpu_count,
          input_db, input_smiles, ncpu, pc, chunked, fut, dest, pos, all_res,
          probes, nextfut, results, out, error, completed, query, limit, search>>

mainVars == <<input_smiles, ncpu, pc, chunked, fut, dest, pos, all_res,
              probes, nextfut, results, out, error, completed>>

searchVars == <<query, limit, search>>

\* Sequences over S of length at most n
SeqsUpTo(S, n) == UNION { [1..k -> S] : k \in 0..n }

\* ------------------------------------------------------------- main: chunking
\* take with an inclusive upper index: one item too many per call
takeOneMore(n, iterable) ==
    SubSeq(iterable, 1, IF n + 1 < Len(iterable) THEN n + 1 ELSE Len(iterable))

\* take(n, iterable): the next n items of the iterator (fewer at its end)
take(n, iterable) ==
    SubSeq(iterable, 1, IF n < Len(iterable) THEN n ELSE Len(iterable))

\* The sentinel is yielded before the iteration stops: a last, empty chunk
RECURSIVE ChunkedWithSentinel(_, _)
ChunkedWithSentinel(n, it) ==
    LET c == take(n, it)
    IN  IF c = << >> THEN <<c>>
        ELSE <<c>> \o ChunkedWithSentinel(n, SubSeq(it, Len(c) + 1, Len(it)))

\* iter(partial(take, ncpu, it), []): call take on the one shared iterator
\* until it returns the sentinel []
RECURSIVE Chunked(_, _)
Chunked(n, it) ==
    LET c == take(n, it)
    IN  IF c = << >> THEN << >>
        ELSE <<c>> \o Chunked(n, SubSeq(it, Len(c) + 1, Len(it)))

\* zip(mol_ids, smiles)
Zip(df_mols) == [i \in 1..Len(df_mols) |-> <<df_mols[i].Name, df_mols[i].smi>>]

\* ------------------------------------------------------------- main: output
Header == <<"smi", "mol_id", "chembl_smi", "chembl_id", "similarity">>

\* round(sim, 4), as the number of ten-thousandths: sim * 10^4 = U * 625 / 2^51
\* for sim = U * 2^-55, computed in base 2^14 digits and rounded half to even.
Round4(sim) ==
    LET h1 == sim[1] \div 2^14
        h0 == sim[1] % 2^14
        l1 == sim[2] \div 2^14
        l0 == sim[2] % 2^14
        c0 == l0 * 625
        s1 == l1 * 625 + c0 \div 2^14
        s2 == h0 * 625 + s1 \div 2^14
        s3 == h1 * 625 + s2 \div 2^14
        low == <<s2 % 2^14, s1 % 2^14, c0 % 2^14>>
        q == s3 \div 2^9
        r == s3 % 2^9
    IN  IF r > 2^8 \/ (r = 2^8 /\ low # <<0, 0, 0>>) THEN q + 1
        ELSE IF r < 2^8 THEN q
        ELSE IF q % 2 = 0 THEN q ELSE q + 1

\* The two smiles columns change places: chembl_smi is written under smi
LineColumnsSwapped(r) == <<r[1], r[4], r[5], r[2], Round4(r[3])>>

\* The line written for one element of the flattened result:
\* f'{smi_sql}\t{mol_id}\t{chembl_smi}\t{chembl_id}\t{round(sim, 4)}\n'
Line(r) == <<r[5], r[4], r[1], r[2], Round4(r[3])>>

\* Each list is put in front of the sum so far: the lists come out in
\* reverse order
RECURSIVE SumPrepending(_)
SumPrepending(lists) ==
    IF lists = << >> THEN << >> ELSE SumPrepending(Tail(lists)) \o Head(lists)

\* sum(list_of_lists, [])
RECURSIVE Sum(_)
Sum(lists) ==
    IF lists = << >> THEN << >> ELSE Head(lists) \o Sum(Tail(lists))

\* ------------------------------------------------------------- the run
Chunks == 1..Len(chunked)

InState(S) == { c \in Chunks : fut[c] \in S }

\* State of main and of the pool while get_similarity is studied on its own.
MainIdle ==
    /\ input_smiles = << >>
    /\ ncpu = 1
    /\ pc = "idle"
    /\ chunked = << >>
    /\ fut = << >>
    /\ dest = << >>
    /\ pos = << >>
    /\ all_res = << >>
    /\ probes = << >>
    /\ nextfut = 1
    /\ results = << >>
    /\ out = << >>
    /\ error = "none"
    /\ completed = << >>

SearchIdle ==
    /\ query = "C"
    /\ limit = 1
    /\ search = [SearchStart EXCEPT !.pc = "idle"]

\* A line left in the output file by an earlier run
StaleLine == <<"stale">>

\* What the file named by args.output may hold when main starts: nothing
\* (no such file) or the lines of an earlier run.
OutputBefore(path) ==
    IF path = OutputNone THEN {<< >>} ELSE {<< >>, <<StaleLine>>}

\* main before its first statement, on a machine of MaxCpu units: --ncpu
\* any worker count of that machine, any query file of at most MaxQueries
\* molecules, nothing parsed, chunked or submitted yet.
MainStart ==
    /\ args_ncpu \in 1..MaxCpu
    /\ cpu_count = MaxCpu
    /\ \E n \in 0..MaxQueries :
          \E smiles \in [1..n -> QuerySmiles] :
             input_smiles = [i \in 1..n |-> [Name |-> i, smi |-> smiles[i]]]
    /\ ncpu = 1
    /\ pc = "args"
    /\ chunked = << >>
    /\ fut = << >>
    /\ dest = << >>
    /\ pos = << >>
    /\ all_res = << >>
    /\ probes = << >>
    /\ nextfut = 1
    /\ results = << >>
    /\ error = "none"
    /\ completed = << >>
    /\ SearchIdle

\* A run of main with --threshold left at its default: -o given or omitted,
\* the output file there or not, a reference table of at most MaxRefs rows.
Init ==
    /\ args_output \in {OutputNone, OutputFile}
    /\ args_threshold = D_0_7
    /\ input_db \in SeqsUpTo(RefMols, MaxRefs)
    /\ out \in OutputBefore(args_output)
    /\ MainStart

min(a, b) == IF a <= b THEN a ELSE b

max(a, b) == IF a >= b THEN a ELSE b

\* min and max the wrong way round: min(1, max(int(x), cpu_count()))
cpu_typeSwapped(x) == min(1, max(x, cpu_count))

\* cpu_type(x), the type of --ncpu; int(x) of the decimal string of an
\* integer is that integer.
cpu_type(x) == max(1, min(x, cpu_count))

\* os.path.isfile(path) raises TypeError for None: os.stat takes no None and
\* isfile catches OSError and ValueError only.
IsfileRaises(path) == path = OutputNone

\* main, lines 80-87: parse the options (args.ncpu = cpu_type(x)), remove
\* the output file if there is one, read the query file.  With -o omitted
\* os.path.isfile(None) raises and main dies before it has opened anything.
Prepare ==
    /\ pc = "args"
    /\ ncpu' = cpu_type(args_ncpu)
    /\ IF IsfileRaises(args_output)
       THEN /\ pc' = "crashed"
            /\ error' = "TypeError"
            /\ UNCHANGED out
       ELSE /\ pc' = "start"
            /\ out' = << >>
            /\ UNCHANGED error
    /\ UNCHANGED <<argVars, input_db, input_smiles, chunked, fut, dest, pos,
                   all_res, probes, nextfut, results, completed, searchVars>>

\* main, lines 88-95: build the chunk iterator, open the output and the pool,
\* write the header, and call p.map, which consumes the whole iterator and
\* submits one future per chunk before it returns.
Dispatch ==
    /\ pc = "start"
    /\ chunked' = Chunked(ncpu, Zip(input_smiles))
    /\ fut' = [c \in 1..Len(chunked') |-> "PENDING"]
    /\ dest' = [c \in 1..Len(chunked') |-> << >>]
    /\ pos' = [c \in 1..Len(chunked') |-> 1]
    /\ all_res' = [c \in 1..Len(chunked') |-> << >>]
    /\ probes' = [c \in 1..Len(chunked') |-> << >>]
    /\ out' = out \o <<Header>>
    /\ pc' = "wait"
    /\ UNCHANGED <<argVars, input_db, input_smiles, ncpu, nextfut, results,
                   error, completed, searchVars>>

\* The pool moves its oldest pending work item into the call queue, which
\* holds at most max_workers + 1 items; from then on the future is running
\* and cannot be cancelled.
Enqueue(c) ==
    /\ pc \in {"wait", "shutdown"}
    /\ fut[c] = "PENDING"
    /\ \A d \in Chunks : d < c => fut[d] # "PENDING"
    /\ Cardinality(InState({"QUEUED"})) < ncpu + 1
    /\ fut' = [fut EXCEPT ![c] = "QUEUED"]
    /\ UNCHANGED <<argVars, input_db, input_smiles, ncpu, pc, chunked, dest, pos,
                   all_res, probes, nextfut, results, out, error, completed,
                   searchVars>>

\* The pool starts a new process for every queued item
FreeWorkerAlways == TRUE

\* ProcessPoolExecutor(max_workers=args.ncpu): the pool has args.ncpu worker
\* processes, each running one task at a time; one of them is idle.
FreeWorker == Cardinality(InState({"RUNNING"})) < ncpu

\* dest.backup(con): the copy runs the wrong way, over the persisted table
backupReversed(con, dst) == <<dst, dst>>

\* con.backup(dest), line 47: the pair (con, dest) after the call; dest has
\* become a copy of con, which is only read.
backup(con, dst) == <<con, con>>

\* A free worker process takes the oldest item of the call queue and enters
\* calc_sim_for_smiles, lines 45-50: connect, backup into ':memory:', load
\* the extension, all_res = [].
StartTask(c) ==
    /\ pc \in {"wait", "shutdown"}
    /\ fut[c] = "QUEUED"
    /\ \A d \in Chunks : d < c => fut[d] # "QUEUED"
    /\ FreeWorker
    /\ fut' = [fut EXCEPT ![c] = "RUNNING"]
    /\ input_db' = backup(input_db, dest[c])[1]
    /\ dest' = [dest EXCEPT ![c] = backup(input_db, dest[c])[2]]
    /\ UNCHANGED <<argVars, input_smiles, ncpu, pc, chunked, pos, all_res,
                   probes, nextfut, results, out, error, completed, searchVars>>

\* res[0] + (mol_id, smi), line 53; subscripting None raises TypeError
Augment(res, mol_id, smi) ==
    IF res.is_none THEN "TypeError"
    ELSE <<res.rows[1].smi, res.rows[1].id, res.rows[1].t, mol_id, smi>>

\* for ... in reversed(smiles): the batch is walked from its end
NextItemReversed(c) == chunked[c][Len(chunked[c]) + 1 - pos[c]]

\* for mol_id, smi in smiles, line 51: the item of the next iteration
NextItem(c) == chunked[c][pos[c]]

\* The thresholds one call of get_similarity binds to ?2, in order, each with
\* the mol_id of the query it is executed for
Probed(con, mol_id, smi, lim) ==
    CHOOSE log \in { [i \in 1..Len(p) |-> <<mol_id, p[i]>>] :
                        p \in {SearchRun(con, smi, lim, SearchStart).probed} } : TRUE

\* One iteration of the for loop of calc_sim_for_smiles, lines 51-54: the
\* whole search for one query, then its row is appended.  An exception ends
\* the task: the pool sets it on the chunk's future.
TaskStep(c) ==
    /\ fut[c] = "RUNNING"
    /\ pos[c] <= Len(chunked[c])
    /\ LET mol_id == NextItem(c)[1]
           smi == NextItem(c)[2]
           res == Augment(get_similarity(dest[c], smi, 1), mol_id, smi)
       IN  /\ probes' = [probes EXCEPT ![c] = @ \o Probed(dest[c], mol_id, smi, 1)]
           /\ IF res = "TypeError"
              THEN /\ fut' = [fut EXCEPT ![c] = "FAILED"]
                   /\ completed' = Append(completed, c)
                   /\ UNCHANGED <<pos, all_res>>
              ELSE /\ all_res' = [all_res EXCEPT ![c] = Append(@, res)]
                   /\ pos' = [pos EXCEPT ![c] = @ + 1]
                   /\ UNCHANGED <<fut, completed>>
    /\ UNCHANGED <<argVars, input_db, input_smiles, ncpu, pc, chunked, dest,
                   nextfut, results, out, error, searchVars>>

\* return all_res, line 55: the pool sets the result on the chunk's future.
TaskReturn(c) ==
    /\ fut[c] = "RUNNING"
    /\ pos[c] > Len(chunked[c])
    /\ fut' = [fut EXCEPT ![c] = "FINISHED"]
    /\ completed' = Append(completed, c)
    /\ UNCHANGED <<argVars, input_db, input_smiles, ncpu, pc, chunked, dest, pos,
                   all_res, probes, nextfut, results, out, error, searchVars>>

\* as_completed instead of map: the next future is the next one to have ended
NextToYieldAsCompleted ==
    IF nextfut <= Len(completed) THEN completed[nextfut] ELSE 0

\* Which future the iterator p.map returned waits for next: Executor.map
\* yields the results in the order of submission.
NextToYield == nextfut

\* The exception of a failed task is swallowed and its partial list used
RaisesNever(c) == FALSE

\* future.result() re-raises the exception the task ended with.
Raises(c) == fut[c] = "FAILED"

\* sum(p.map(...), []) pulls the next result.  A result is appended to the
\* partial sums; an exception leaves the iterator, whose finally clause
\* cancels every future not yet yielded (only a pending one can be
\* cancelled), and propagates out of the with block.
Collect ==
    /\ pc = "wait"
    /\ NextToYield \in Chunks
    /\ LET c == NextToYield
       IN  /\ fut[c] \in {"FINISHED", "FAILED"}
           /\ IF Raises(c)
              THEN /\ error' = "TypeError"
                   /\ fut' = [d \in Chunks |->
                                 IF fut[d] = "PENDING" THEN "CANCELLED" ELSE fut[d]]
                   /\ pc' = "shutdown"
                   /\ UNCHANGED <<results, nextfut>>
              ELSE /\ results' = Append(results, all_res[c])
                   /\ nextfut' = nextfut + 1
                   /\ UNCHANGED <<fut, pc, error>>
    /\ UNCHANGED <<argVars, input_db, input_smiles, ncpu, chunked, dest, pos,
                   all_res, probes, out, completed, searchVars>>

\* Only the first chunk's rows: the list of lists is not flattened
RowsToWriteFirstChunk(lists) ==
    IF lists = << >> THEN << >> ELSE Head(lists)

\* The rows the for loop of lines 93-96 writes once sum(...) has returned.
RowsToWrite(lists) == Sum(lists)

\* Every future has been yielded: sum returns the flattened list and the for
\* loop writes one line per element.
WriteRows ==
    /\ pc = "wait"
    /\ nextfut > Len(chunked)
    /\ out' = out \o [i \in 1..Len(RowsToWrite(results)) |->
                          Line(RowsToWrite(results)[i])]
    /\ pc' = "shutdown"
    /\ UNCHANGED <<argVars, input_db, input_smiles, ncpu, chunked, fut, dest,
                   pos, all_res, probes, nextfut, results, error, completed,
                   searchVars>>

\* shutdown(wait=False): main waits for nothing
UnfinishedIgnored == {}

\* The work items shutdown(wait=True) waits for.
Unfinished == InState({"PENDING", "QUEUED", "RUNNING"})

\* Leaving the with block: ProcessPoolExecutor.__exit__ is shutdown(wait=True),
\* which returns when no work item is left pending, queued or running; then
\* main ends, normally or with the exception.
Shutdown ==
    /\ pc = "shutdown"
    /\ Unfinished = {}
    /\ pc' = IF error = "none" THEN "done" ELSE "failed"
    /\ UNCHANGED <<argVars, input_db, input_smiles, ncpu, chunked, fut, dest,
                   pos, all_res, probes, nextfut, results, out, error, completed,
                   searchVars>>

Next ==
    \/ Prepare
    \/ Dispatch
    \/ \E c \in Chunks : Enqueue(c)
    \/ \E c \in Chunks : StartTask(c)
    \/ \E c \in Chunks : TaskStep(c)
    \/ \E c \in Chunks : TaskReturn(c)
    \/ Collect
    \/ WriteRows
    \/ Shutdown

Spec == Init /\ [][Next]_vars

\* ------------------------------------------------------------- the options alone
\* The start of main on any machine of at most MaxUnits units, for any
\* integer given to --ncpu from below 1 to above cpu_count(), with -o given
\* or omitted, and nothing to search.
ArgsInit ==
    /\ args_output \in {OutputNone, OutputFile}
    /\ args_threshold \in ThresholdOptions
    /\ cpu_count \in 1..MaxUnits
    /\ args_ncpu \in (1 - ArgSlack)..(MaxUnits + ArgSlack)
    /\ input_db = << >>
    /\ input_smiles = << >>
    /\ ncpu = 1
    /\ pc = "args"
    /\ chunked = << >>
    /\ fut = << >>
    /\ dest = << >>
    /\ pos = << >>
    /\ all_res = << >>
    /\ probes = << >>
    /\ nextfut = 1
    /\ results = << >>
    /\ out \in OutputBefore(args_output)
    /\ error = "none"
    /\ completed = << >>
    /\ SearchIdle

ArgsSpec == ArgsInit /\ [][Prepare]_vars

\* ------------------------------------------------------------- --threshold
\* Runs of main that differ in the value given to --threshold: -o given, no
\* output file yet, a reference table of MaxRefs rows.
ThresholdInit ==
    /\ args_output = OutputFile
    /\ args_threshold \in ThresholdOptions
    /\ input_db \in [1..MaxRefs -> RefMols]
    /\ out = << >>
    /\ MainStart

ThresholdSpec == ThresholdInit /\ [][Next]_vars

\* ------------------------------------------------------------- get_similarity alone
\* get_similarity called on any table of at most MaxRefs rows, any query and
\* limit None, 1 or 2, and run one loop iteration at a time.
SearchInit ==
    /\ args_output = OutputFile
    /\ args_threshold \in ThresholdOptions
    /\ args_ncpu = 1
    /\ cpu_count = 1
    /\ input_db \in SeqsUpTo(RefMols, MaxRefs)
    /\ query \in QuerySmiles
    /\ limit \in {NoLimit, 1, 2}
    /\ search = SearchStart
    /\ MainIdle

\* The loop guard holds: execute the query, return its rows or lower the
\* threshold.
SearchIterate ==
    /\ search.pc = "loop"
    /\ LoopGuard(search.threshold)
    /\ search' = SearchStep(input_db, query, limit, search)
    /\ UNCHANGED <<argVars, input_db, mainVars, query, limit>>

\* The loop guard fails: the function ends without a return statement.
SearchExhausted ==
    /\ search.pc = "loop"
    /\ ~LoopGuard(search.threshold)
    /\ search' = SearchStep(input_db, query, limit, search)
    /\ UNCHANGED <<argVars, input_db, mainVars, query, limit>>

SearchNext == SearchIterate \/ SearchExhausted

SearchSpec == SearchInit /\ [][SearchNext]_vars

\* The interpreter keeps executing the loop while it has a next step.
FairSearchSpec == SearchSpec /\ WF_vars(SearchNext)

\* ------------------------------------------------------------- properties
N == Len(input_smiles)

Ended == pc \in {"done", "failed"}

\* main has handed its chunks to the pool
Dispatched == pc \in {"wait", "shutdown", "done", "failed"}

\* The Match Result rows of the output: every line after the header
RowsWritten == IF out = << >> THEN 0 ELSE Len(out) - 1

\* The adaptive search on the persisted table gives this query a row
Finds(smi) == ~get_similarity(input_db, smi, 1).is_none

\* The items of a chunk whose search gives a row, in chunk order
Matched(chunk) == SelectSeq(chunk, LAMBDA q : Finds(q[2]))

\* The (mol_id, smi) pairs a list of result rows carries, in order
Pairs(rows) == [i \in 1..Len(rows) |-> <<rows[i][4], rows[i][5]>>]

\* C1: in the worker task a query whose search exhausts every threshold is
\* silently dropped: the task never fails, and a task that has returned
\* holds exactly one result for each of its queries that has a match, and
\* none for the others.
C1_NoMatchSilentlyDropped ==
    \A c \in Chunks :
       /\ fut[c] # "FAILED"
       /\ fut[c] = "FINISHED" => Pairs(all_res[c]) = Matched(chunked[c])

\* The chunk results concatenated in the order given by a sequence of chunks
RECURSIVE Concat(_)
Concat(order) ==
    IF order = << >> THEN << >>
    ELSE all_res[Head(order)] \o Concat(Tail(order))

Lines(rows) == [i \in 1..Len(rows) |-> Line(rows[i])]

\* C2 as stated: with more than one worker the output is the chunk results
\* concatenated in the order the chunks completed.
C2_CompletionOrder ==
    (pc = "done" /\ ncpu > 1) => out = <<Header>> \o Lines(Concat(completed))

\* C2, amended: for every worker count the output is the chunk results
\* concatenated in the order the chunks were submitted, whatever the order
\* in which they completed, so its mol_id column lists the queries in the
\* order of the query file.
C2_SubmissionOrder ==
    pc = "done" =>
        /\ out = <<Header>> \o Lines(Concat([c \in Chunks |-> c]))
        /\ [i \in 1..RowsWritten |-> out[i + 1][2]] =
              [i \in 1..N |-> input_smiles[i].Name]

\* A run with two workers ended normally although its chunks completed out
\* of submission order, with rows from more than one chunk.
C2_Witness ==
    /\ pc = "done"
    /\ ncpu > 1
    /\ completed # [c \in Chunks |-> c]
    /\ \A c \in Chunks : all_res[c] # << >>

C4_ChunkPartition ==
    Dispatched =>
        LET W == ncpu
            zipped == Zip(input_smiles)
        IN  /\ Len(chunked) * W >= N
            /\ (Len(chunked) - 1) * W < N \/ (N = 0 /\ chunked = << >>)
            /\ \A c \in Chunks :
                  /\ Len(chunked[c]) = (IF c * W <= N THEN W ELSE N - (c - 1) * W)
                  /\ \A j \in 1..Len(chunked[c]) :
                        chunked[c][j] = zipped[(c - 1) * W + j]
            /\ \A k \in 1..N :
                  Cardinality({ cj \in Chunks \X (1..W) :
                                   /\ cj[2] <= Len(chunked[cj[1]])
                                   /\ (cj[1] - 1) * W + cj[2] = k }) = 1

\* Chunking with W > 1 that left a shorter last chunk after a full one.
C4_Witness ==
    /\ Dispatched
    /\ ncpu > 1
    /\ Len(chunked) >= 2
    /\ Len(chunked[Len(chunked)]) < ncpu
    /\ Len(chunked[1]) = ncpu

\* The doubles of the decimal thresholds 0.7, 0.6, ..., 0.0
D_0_6 == <<80530636, 214748364>>
D_0_5 == <<67108864, 0>>
D_0_4 == <<53687091, 53687092>>
D_0_2 == <<26843545, 161061274>>

Grid == <<D_0_7, D_0_6, D_0_5, D_0_4, D_0_3, D_0_2, D_0_1, D_0>>

Returned == search.pc = "return"

\* The similarity column of the table for the query under study
Sims == Joined(input_db, query)

\* C5: the search returns at the first (highest) of the thresholds 0.7, 0.6,
\* ..., 0.0 for which the table holds a molecule of similarity at least that
\* value, and it returns nothing only if there is no such threshold.
C5_ReturnsAtHighestGridThreshold ==
    Returned =>
        LET hits == { k \in 1..Len(Grid) :
                        \E i \in 1..Len(Sims) : FGe(Sims[i].t, Grid[k]) }
        IN  IF hits = {} THEN search.res.is_none
            ELSE /\ ~search.res.is_none
                 /\ \E k \in hits :
                       /\ \A j \in hits : k <= j
                       /\ search.probed[Len(search.probed)] = Grid[k]

\* C6: the first probe is at 0.7, every later probe is 0.1 below the one
\* before it and strictly lower, every probe but the last returned no row,
\* a search that returned rows returned those of its last probe, even when
\* they are fewer than limit; and when the only matches have similarity 0.55
\* the probes are exactly 0.7, 0.6, 0.5 and the 0.55 row is returned.
C6_ProbeOrderStopsAtFirstRow ==
    LET p == search.probed
    IN  /\ p # << >> => p[1] = D_0_7
        /\ \A i \in 1..(Len(p) - 1) :
              /\ p[i + 1] = FSub(p[i], D_0_1)
              /\ FGt(p[i], p[i + 1])
              /\ Execute(input_db, query, p[i], limit) = << >>
        /\ ~search.res.is_none =>
              /\ Returned
              /\ search.res.rows # << >>
              /\ search.res.rows = Execute(input_db, query, p[Len(p)], limit)
        /\ (Returned /\ Sims # << >> /\ \A i \in 1..Len(Sims) : Sims[i].t = D_0_55) =>
              /\ p = <<D_0_7, D_0_6, D_0_5>>
              /\ ~search.res.is_none
              /\ search.res.rows[1].t = D_0_55

\* The only match has similarity 0.55 and limit is 2: the search returned
\* that single row after its third probe.
C6_Witness ==
    /\ Returned
    /\ limit = 2
    /\ Len(search.probed) = 3
    /\ Len(search.res.rows) = 1
    /\ search.res.rows[1].t = D_0_55

C10_EquivalentToExhaustive ==
    (Returned /\ limit = 1) =>
        /\ Execute(input_db, query, D_0, 1) # << >> => ~search.res.is_none
        /\ ~search.res.is_none =>
              \A i \in 1..Len(Sims) : FGe(search.res.rows[1].t, Sims[i].t)

\* C7: once a task has failed no row is ever written and the run cannot end
\* normally; a run that ended with the error has written the header only,
\* whatever other chunks returned.
C7_FailureLeavesNoRows ==
    /\ (\E c \in Chunks : fut[c] = "FAILED") => (RowsWritten = 0 /\ pc # "done")
    /\ pc = "failed" =>
          /\ error = "TypeError"
          /\ out = <<Header>>
          /\ \E c \in Chunks : fut[c] = "FAILED"

\* A run ended with the error although a chunk had returned rows.
C7_Witness ==
    /\ pc = "failed"
    /\ \E c \in Chunks : fut[c] = "FINISHED" /\ all_res[c] # << >>
    /\ out = <<Header>>

\* C9 as stated: the run ends only after every chunk handed to p.map has
\* ended with a result or an error, and no chunk is ever cancelled.
C9_NeverCancelled ==
    /\ Ended => \A c \in Chunks : fut[c] \in {"FINISHED", "FAILED"}
    /\ \A c \in Chunks : fut[c] # "CANCELLED"

\* C9, amended: the run ends only after every chunk has ended with a result
\* or an error or was cancelled; a chunk is cancelled only while it is still
\* pending in the pool, and only when a failure has surfaced in main; a
\* chunk that is queued or running is never cancelled, it runs to its end.
C9_WaitsForStartedChunks ==
    /\ [](Ended => \A c \in Chunks : fut[c] \in {"FINISHED", "FAILED", "CANCELLED"})
    /\ []((\E c \in Chunks : fut[c] = "CANCELLED") => error # "none")
    /\ [][\A c \in Chunks :
            /\ (fut[c] # "CANCELLED" /\ fut'[c] = "CANCELLED") => fut[c] = "PENDING"
            /\ fut[c] \in {"QUEUED", "RUNNING"} =>
                  fut'[c] \in {"QUEUED", "RUNNING", "FINISHED", "FAILED"}]_vars

\* A run ended with the error after cancelling a pending chunk, while a chunk
\* submitted after the failed one ran to its end.
C9_Witness ==
    /\ pc = "failed"
    /\ \E c \in Chunks : fut[c] = "CANCELLED"
    /\ \E c, d \in Chunks : c < d /\ fut[c] = "FAILED" /\ fut[d] = "FINISHED"

\* The row of the persisted table most similar to a query, the first such
\* row in table order
TopRow(smi) == Execute(input_db, smi, D_0, 1)[1]

C12_OmittedOutputSucceeds ==
    args_output = OutputNone => (pc # "crashed" /\ error = "none")

\* C13: no step of a run changes the persisted table, whatever the tasks do
\* and in whatever order; a task's private copy is empty until the task
\* starts and equal to the persisted table from then on, through probes,
\* aggregation and failure; and a copy changes only in the step that starts
\* its own task, which changes no other task's copy.
C13_SourceUntouched ==
    /\ [][input_db' = input_db]_vars
    /\ [](\A c \in Chunks :
             dest[c] = IF fut[c] \in {"PENDING", "QUEUED", "CANCELLED"}
                       THEN << >> ELSE input_db)
    /\ [][\A c \in Chunks :
            dest'[c] # dest[c] =>
               /\ fut[c] = "QUEUED"
               /\ fut'[c] = "RUNNING"
               /\ \A d \in Chunks \ {c} : dest'[d] = dest[d]]_vars

\* A run on a full table ended with the error after two tasks had made their
\* copies, and the persisted table is what it was.
C13_Witness ==
    /\ pc = "failed"
    /\ Len(input_db) = MaxRefs
    /\ Cardinality({ c \in Chunks : dest[c] = input_db }) >= 2
    /\ \E c \in Chunks : fut[c] = "FINISHED" /\ all_res[c] # << >>

\* C14: once the options are parsed, the worker count is the integer x given
\* to --ncpu clamped to [1, cpu_count()]: 1 when x < 1, cpu_count() when x
\* exceeds it, and x otherwise.
C14_WorkerCountClamped ==
    pc # "args" =>
        /\ args_ncpu < 1 => ncpu = 1
        /\ args_ncpu > cpu_count => ncpu = cpu_count
        /\ (1 <= args_ncpu /\ args_ncpu <= cpu_count) => ncpu = args_ncpu

\* The options were parsed on a machine of several units with --ncpu above
\* the number of units.
C14_Witness ==
    /\ pc # "args"
    /\ cpu_count > 1
    /\ args_ncpu > cpu_count
    /\ ncpu = cpu_count

\* The position in chunk c of the query with this mol_id
PosInChunk(c, mol_id) ==
    CHOOSE j \in 1..Len(chunked[c]) : chunked[c][j][1] = mol_id

\* C15: within one task the results are those of the first queries of the
\* batch in batch order (so a subsequence of the batch), the queries are
\* probed one after the other in batch order starting with the first, the
\* probes of one query go down in threshold, and the first probe of a query
\* comes directly after the probe that ended the search of the query before
\* it by returning a row, when that query's result is already in the list.
C15_BatchOrder ==
    \A c \in Chunks :
       /\ Len(all_res[c]) <= Len(chunked[c])
       /\ Pairs(all_res[c]) = SubSeq(chunked[c], 1, Len(all_res[c]))
       /\ probes[c] # << >> => PosInChunk(c, probes[c][1][1]) = 1
       /\ \A i \in 1..(Len(probes[c]) - 1) :
             LET j == PosInChunk(c, probes[c][i][1])
                 k == PosInChunk(c, probes[c][i + 1][1])
             IN  /\ k \in {j, j + 1}
                 /\ k = j + 1 =>
                       /\ Execute(dest[c], chunked[c][j][2], probes[c][i][2], 1) # << >>
                       /\ Len(all_res[c]) >= j
                 /\ k = j => FGt(probes[c][i][2], probes[c][i + 1][2])

\* A task returned the rows of two queries, the first of them found after
\* more than one probe.
C15_Witness ==
    \E c \in Chunks :
       /\ fut[c] = "FINISHED"
       /\ Len(all_res[c]) = 2
       /\ Len(probes[c]) >= 3
       /\ probes[c][2][1] = chunked[c][1][1]

\* C16: every result a task holds pairs one query of its own chunk (mol_id,
\* smi) with the row the search returned for that very query, and every
\* line of the output carries in (smi, mol_id) one query of the file and in
\* (chembl_smi, chembl_id, similarity) the row the search returned for that
\* query, its similarity rounded to 4 decimals.
C16_RowsCarryOwnQuery ==
    /\ \A c \in Chunks :
          \A i \in 1..Len(all_res[c]) :
             LET r == all_res[c][i]
             IN  /\ \E j \in 1..Len(chunked[c]) : chunked[c][j] = <<r[4], r[5]>>
                 /\ get_similarity(input_db, r[5], 1) =
                       Rows(<<[smi |-> r[1], id |-> r[2], t |-> r[3]]>>)
    /\ \A i \in 2..Len(out) :
          out[i] # StaleLine =>
             \E k \in 1..N :
                \E res \in {get_similarity(input_db, input_smiles[k].smi, 1)} :
                   /\ <<out[i][1], out[i][2]>> =
                         <<input_smiles[k].smi, input_smiles[k].Name>>
                   /\ ~res.is_none
                   /\ <<out[i][3], out[i][4], out[i][5]>> =
                         <<res.rows[1].smi, res.rows[1].id, Round4(res.rows[1].t)>>

\* A run wrote lines for queries of different chunks whose searches returned
\* different similarities, one of them for a query that is not the molecule
\* it matched.
C16_Witness ==
    /\ pc = "done"
    /\ Len(chunked) >= 2
    /\ \E i, j \in 2..Len(out) :
          /\ out[i][5] # out[j][5]
          /\ out[i][1] # out[i][3]

\* The task of chunk c has been started by a worker process
Started(c) == fut[c] \in {"RUNNING", "FINISHED", "FAILED"}

SequentialRows ==
    [i \in 1..N |->
        Augment(get_similarity(input_db, input_smiles[i].smi, 1),
                input_smiles[i].Name, input_smiles[i].smi)]

\* C18: when every query has a match, a run that has ended has ended
\* normally, and the lines after the header are those of one sequential pass
\* over the query file, in file order, whatever the worker count and the
\* order in which the tasks started, ran and completed.
C18_OutputIndependentOfWorkers ==
    (Ended /\ \A i \in 1..N : Finds(input_smiles[i].smi)) =>
        /\ pc = "done"
        /\ out = <<Header>> \o Lines(SequentialRows)
        /\ \A i \in 1..N : out[i + 1][2] = i

\* Three queries on two workers: the second chunk completed before the first
\* and the run wrote all three rows.
C18_Witness ==
    /\ pc = "done"
    /\ ncpu = 2
    /\ N = 3
    /\ completed = <<2, 1>>
    /\ RowsWritten = 3

\* C19: once main has chunked the queries no chunk is empty; when N is a
\* multiple of the worker count there are exactly N / W chunks, none of them
\* a trailing empty one; and for an empty query file there is no chunk at
\* all, the run is never stuck, and it can only end normally, with the
\* header as the whole output.
C19_NoEmptyChunk ==
    Dispatched =>
        /\ \A c \in Chunks : chunked[c] # << >>
        /\ N % ncpu = 0 => Len(chunked) = N \div ncpu
        /\ N = 0 =>
              /\ chunked = << >>
              /\ fut = << >>
              /\ error = "none"
              /\ pc # "failed"
              /\ pc # "done" => ENABLED Next
              /\ pc = "done" => out = <<Header>>

\* A run on an empty query file ended normally.
C19_Witness ==
    /\ pc = "done"
    /\ N = 0
    /\ ncpu = 2
    /\ out = <<Header>>

====
